---- MODULE Spec2Model ----
(***************************************************************************)
(* A model of truffle-compile's artifact assembly pipeline                 *)
(* (packages/truffle-compile/run.js) and of its legacy shim                *)
(* (packages/truffle-compile/legacy/shims.js).                             *)
(*                                                                         *)
(* JavaScript strings on which the code does character work (paths,        *)
(* bytecode, library names) are sequences of one-character strings; other  *)
(* strings (contract names, file contents) are opaque TLA+ strings.        *)
(*                                                                         *)
(* The module holds five state machines over one set of variables, one per *)
(* part of the code: SpecLink (replaceAllLinkReferences), SpecPath         *)
(* (getPortableSourcePath), SpecRun (run and its stages), SpecABI          *)
(* (orderABI) and SpecShim (shimOutput).  A specification leaves the       *)
(* variables of the other parts at their idle values.                      *)
(***************************************************************************)
EXTENDS Integers, Sequences, FiniteSets, TLC

VARIABLES
  \* replaceAllLinkReferences / replaceLinkReferences (run.js:388-424)
  lrPc,                   \* "call" | "reduce" | "done" | "idle"
  bytecode,               \* the bytecode argument (hex characters, no 0x)
  linkReferences,         \* the linkReferences argument: files -> libraries -> links
  libraryLinkReferences,  \* the flat list still to be reduced
  unprefixed,             \* the accumulator of the reduce (the working bytecode)
  resolved,               \* the returned string, or None
  \* getPortableSourcePath (run.js:126-137)
  gpPc,                   \* "input" | "once" | "twice" | "idle"
  sourcePath,             \* the path given
  portableOnce,           \* getPortableSourcePath(sourcePath)
  portableTwice,          \* getPortableSourcePath(portableOnce)
  \* run (run.js:7-71)
  pc,                     \* the stage run is about to execute, or its end
  stages,                 \* the stages entered so far, in order
  rawSources,             \* argument: sequence of [path, contents] (object entries)
  options,                \* argument: compilationTargets, strict, quiet, version
  collected,              \* { sources, targets, originalSourcePaths } or None
  compilerInput,          \* the compiler request or None
  compiles,               \* how many times solc.compile was called
  compilerOutput,         \* the parsed compiler response or None
  detected,               \* { warnings, errors } of detectErrors, or None
  logged,                 \* what options.logger.log was given, in order
  returned,               \* what run returned, or None
  thrown,                 \* what run threw, or None
  \* orderABI (run.js:353-386)
  oaPc,                   \* "input" | "once" | "twice" | "idle"
  abi,                    \* the ABI entry list given
  contractName,           \* the contract name given
  ast,                    \* the AST given
  orderedOnce,            \* orderABI of the input
  orderedTwice,           \* orderABI of orderedOnce
  \* shimOutput (legacy/shims.js)
  shPc,                   \* "call" | "done" | "idle"
  shimModule,             \* which of the two shim files is loaded
  shimInput,              \* the artifact list given
  shimResult              \* the legacy map returned, a TypeError, or None

linkVars == <<lrPc, bytecode, linkReferences, libraryLinkReferences, unprefixed, resolved>>
pathVars == <<gpPc, sourcePath, portableOnce, portableTwice>>
runVars  == <<pc, stages, rawSources, options, collected, compilerInput, compiles,
              compilerOutput, detected, logged, returned, thrown>>
abiVars  == <<oaPc, abi, contractName, ast, orderedOnce, orderedTwice>>
shimVars == <<shPc, shimModule, shimInput, shimResult>>
vars     == <<linkVars, pathVars, runVars, abiVars, shimVars>>

\* JavaScript's undefined, and "no value yet" for a variable of the model.
None == "undefined"

Min(a, b) == IF a < b THEN a ELSE b
Max(a, b) == IF a > b THEN a ELSE b

\* String.prototype.substring(start, end): both indices clamped to
\* [0, length] and swapped when start > end; characters are 0-based.
Substring(s, start, end) ==
  LET lo == Min(Max(start, 0), Len(s))
      hi == Min(Max(end, 0), Len(s))
  IN  SubSeq(s, Min(lo, hi) + 1, Max(lo, hi))

\* String.prototype.substring(start): to the end of the string.
SubstringFrom(s, start) == Substring(s, start, Len(s))

\* How many characters a hex-encoded byte takes (ref.start * 2).
CharsPerByte == 2

\* The width the link id is padded to (while (linkId.length < 40)).
LinkIdWidth == 40

\* The placeholder slot solc leaves for a library address, in bytes.
SlotBytes == LinkIdWidth \div CharsPerByte

Repeat(c, n) == [i \in 1..n |-> c]

-----------------------------------------------------------------------------
(***************************************************************************)
(* Idle values: the state of a part of the code that is not running.       *)
(***************************************************************************)
LinkIdle ==
  /\ lrPc = "idle" /\ bytecode = <<>> /\ linkReferences = <<>>
  /\ libraryLinkReferences = <<>> /\ unprefixed = <<>> /\ resolved = None

PathIdle ==
  /\ gpPc = "idle" /\ sourcePath = <<>> /\ portableOnce = None /\ portableTwice = None

RunIdle ==
  /\ pc = "idle" /\ stages = <<>> /\ rawSources = <<>> /\ options = None
  /\ collected = None /\ compilerInput = None /\ compiles = 0
  /\ compilerOutput = None /\ detected = None /\ logged = <<>>
  /\ returned = None /\ thrown = None

ABIIdle ==
  /\ oaPc = "idle" /\ abi = <<>> /\ contractName = None /\ ast = None
  /\ orderedOnce = None /\ orderedTwice = None

ShimIdle ==
  /\ shPc = "idle" /\ shimModule = None /\ shimInput = <<>> /\ shimResult = None

-----------------------------------------------------------------------------
(***************************************************************************)
(* LinkReferenceResolver: replaceAllLinkReferences, replaceLinkReferences  *)
(***************************************************************************)

\* var linkId = "__" + libraryName; while (linkId.length < 40) linkId += "_";
RECURSIVE PadLinkId(_)
PadLinkId(linkId) ==
  IF Len(linkId) < LinkIdWidth THEN PadLinkId(Append(linkId, "_")) ELSE linkId

LinkId(libraryName) == PadLinkId(<<"_", "_">> \o libraryName)

\* One pass of the forEach body of replaceLinkReferences:
\*   var start = ref.start * 2;
\*   bytecode = bytecode.substring(0, start) + linkId + bytecode.substring(start + 40);
Splice(code, linkId, ref) ==
  LET start == ref.start * CharsPerByte
  IN  Substring(code, 0, start) \o linkId \o SubstringFrom(code, start + LinkIdWidth)

RECURSIVE SpliceEach(_, _, _)
SpliceEach(code, linkId, links) ==
  IF links = <<>> THEN code
  ELSE SpliceEach(Splice(code, linkId, Head(links)), linkId, Tail(links))

replaceLinkReferences(code, links, libraryName) ==
  SpliceEach(code, LinkId(libraryName), links)

\* Object.values(linkReferences).map(fileLinks => Object.entries(fileLinks)
\*   .map(([libraryName, links]) => ({libraryName, links}))).reduce(concat, [])
RECURSIVE FlattenLinkReferences(_)
FlattenLinkReferences(refs) ==
  IF refs = <<>> THEN <<>>
  ELSE Head(refs).libraries \o FlattenLinkReferences(Tail(refs))

RECURSIVE ReduceLinkReferences(_, _)
ReduceLinkReferences(code, flat) ==
  IF flat = <<>> THEN code
  ELSE ReduceLinkReferences(
         replaceLinkReferences(code, Head(flat).links, Head(flat).libraryName),
         Tail(flat))

Prefix0x(s) == <<"0", "x">> \o s

replaceAllLinkReferences(code, refs) ==
  Prefix0x(ReduceLinkReferences(code, FlattenLinkReferences(refs)))

(* ---- the inputs of SpecLink ---- *)

\* Bytes of the bytecode handed to the resolver.
BytecodeBytes == 50

\* Most links in one linkReferences object.
MaxLinks == 2

\* The longest library name tried: one more than fits beside "__" in 40.
MaxNameLen == 39

HexDigits == <<"0", "1", "2", "3", "4", "5", "6", "7",
               "8", "9", "a", "b", "c", "d", "e", "f">>

\* Bytecodes: every character tells its position (mod 16), or all zeros.
PositionalBytecode == [i \in 1..(BytecodeBytes * CharsPerByte) |-> HexDigits[((i - 1) % 16) + 1]]
ZeroBytecode == Repeat("0", BytecodeBytes * CharsPerByte)
Bytecodes == {PositionalBytecode, ZeroBytecode}

MathLib == <<"M", "a", "t", "h", "L", "i", "b">>
LibraryNames == {MathLib, Repeat("S", LinkIdWidth - 2), Repeat("T", MaxNameLen)}
LinkFiles == {"a.sol", "b.sol"}
LinkStarts == {0, 10, BytecodeBytes - SlotBytes}

\* One link as solc reports it, with the file and library it is listed under.
FlatLinks == [file : LinkFiles, libraryName : LibraryNames, start : LinkStarts]

FlatLinkLists == UNION {[1..n -> FlatLinks] : n \in 0..MaxLinks}

\* solc's slots lie inside the bytecode and do not overlap.
SlotsValid(flat) ==
  /\ \A i \in DOMAIN flat : (flat[i].start + SlotBytes) <= BytecodeBytes
  /\ \A i, j \in DOMAIN flat :
       i # j => \/ flat[i].start + SlotBytes <= flat[j].start
                \/ flat[j].start + SlotBytes <= flat[i].start

\* The linkReferences object that lists the links of `flat`: files in the
\* order they first appear, libraries likewise within a file.
AddToLibraries(libraries, l) ==
  IF \E i \in DOMAIN libraries : libraries[i].libraryName = l.libraryName
  THEN [i \in DOMAIN libraries |->
          IF libraries[i].libraryName = l.libraryName
          THEN [libraries[i] EXCEPT !.links =
                  Append(@, [start |-> l.start, length |-> SlotBytes])]
          ELSE libraries[i]]
  ELSE Append(libraries, [libraryName |-> l.libraryName,
                          links |-> <<[start |-> l.start, length |-> SlotBytes]>>])

AddToFiles(files, l) ==
  IF \E i \in DOMAIN files : files[i].file = l.file
  THEN [i \in DOMAIN files |->
          IF files[i].file = l.file
          THEN [files[i] EXCEPT !.libraries = AddToLibraries(@, l)]
          ELSE files[i]]
  ELSE Append(files, [file |-> l.file, libraries |-> AddToLibraries(<<>>, l)])

RECURSIVE GroupLinks(_, _)
GroupLinks(files, flat) ==
  IF flat = <<>> THEN files
  ELSE GroupLinks(AddToFiles(files, Head(flat)), Tail(flat))

LinkReferenceObjects == {GroupLinks(<<>>, flat) : flat \in {f \in FlatLinkLists : SlotsValid(f)}}

(* ---- the actions of SpecLink ---- *)

InitLink ==
  /\ lrPc = "call"
  /\ bytecode \in Bytecodes
  /\ linkReferences \in LinkReferenceObjects
  /\ libraryLinkReferences = <<>>
  /\ unprefixed = <<>>
  /\ resolved = None
  /\ PathIdle /\ RunIdle /\ ABIIdle /\ ShimIdle

\* run.js:390-397 and the reduce's initial value (run.js:402)
FlattenStep ==
  /\ lrPc = "call"
  /\ libraryLinkReferences' = FlattenLinkReferences(linkReferences)
  /\ unprefixed' = bytecode
  /\ lrPc' = "reduce"
  /\ UNCHANGED <<bytecode, linkReferences, resolved>>
  /\ UNCHANGED <<pathVars, runVars, abiVars, shimVars>>

\* One splice of replaceLinkReferences (run.js:415-421) for the library at
\* the head of the list; the library leaves the list with its last link.
SpliceStep ==
  /\ lrPc = "reduce"
  /\ libraryLinkReferences # <<>>
  /\ LET lib == Head(libraryLinkReferences)
     IN  /\ lib.links # <<>>
         /\ unprefixed' = Splice(unprefixed, LinkId(lib.libraryName), Head(lib.links))
         /\ libraryLinkReferences' =
              IF Tail(lib.links) = <<>> THEN Tail(libraryLinkReferences)
              ELSE <<[lib EXCEPT !.links = Tail(@)]>> \o Tail(libraryLinkReferences)
  /\ UNCHANGED <<lrPc, bytecode, linkReferences, resolved>>
  /\ UNCHANGED <<pathVars, runVars, abiVars, shimVars>>

\* return `0x${unprefixed}` (run.js:405)
PrefixStep ==
  /\ lrPc = "reduce"
  /\ libraryLinkReferences = <<>>
  /\ resolved' = Prefix0x(unprefixed)
  /\ lrPc' = "done"
  /\ UNCHANGED <<bytecode, linkReferences, libraryLinkReferences, unprefixed>>
  /\ UNCHANGED <<pathVars, runVars, abiVars, shimVars>>

NextLink == FlattenStep \/ SpliceStep \/ PrefixStep

SpecLink == InitLink /\ [][NextLink]_vars

(* ---- claims on the resolver ---- *)

\* C1: replaceAllLinkReferences returns a string that starts with "0x" and
\* whose length after the prefix equals the length of the bytecode given;
\* the working bytecode keeps its length through every splice step.
C1_LengthPreserved ==
  /\ lrPc \in {"reduce", "done"} => Len(unprefixed) = Len(bytecode)
  /\ lrPc = "done" =>
       /\ SubSeq(resolved, 1, 2) = <<"0", "x">>
       /\ Len(resolved) - 2 = Len(bytecode)

\* The token the specification describes: "__", the library name truncated
\* to fit, "_" padding up to width 40.
TruncatedToken(libraryName) ==
  LET head == <<"_", "_">> \o SubSeq(libraryName, 1, Min(Len(libraryName), LinkIdWidth - 2))
  IN  head \o Repeat("_", LinkIdWidth - Len(head))

SingleLink ==
  /\ Len(linkReferences) = 1
  /\ Len(linkReferences[1].libraries) = 1
  /\ Len(linkReferences[1].libraries[1].links) = 1

\* C2: with a single link reference to library L at byte offset o, the result
\* (after 0x) holds at characters [2*o, 2*o+40) the 40-character token "__" +
\* L truncated to fit + "_" padding, and equals the bytecode everywhere else.
C2_TokenSplicedInPlace ==
  (lrPc = "done" /\ SingleLink) =>
    LET lib   == linkReferences[1].libraries[1]
        start == lib.links[1].start * CharsPerByte
        token == TruncatedToken(lib.libraryName)
        body  == SubSeq(resolved, 3, Len(resolved))
    IN  /\ Len(token) = LinkIdWidth
        /\ Len(body) = Len(bytecode)
        /\ \A i \in 1..Len(bytecode) :
             body[i] = IF i - 1 >= start /\ i - 1 < start + LinkIdWidth
                       THEN token[i - start]
                       ELSE bytecode[i]

\* The (libraryName, link) pairs of a linkReferences object, one per splice.
RECURSIVE SpliceList(_)
SpliceList(flat) ==
  IF flat = <<>> THEN <<>>
  ELSE [i \in DOMAIN Head(flat).links |->
          [libraryName |-> Head(flat).libraryName, links |-> <<Head(flat).links[i]>>]]
       \o SpliceList(Tail(flat))

OrdersOf(n) == {p \in [1..n -> 1..n] : \A i, j \in 1..n : p[i] = p[j] => i = j}

\* C10: the result of replaceAllLinkReferences does not depend on the order in
\* which the references are spliced: every permutation of the same splices
\* yields the identical string.
C10_OrderIndependent ==
  lrPc = "done" =>
    LET splices == SpliceList(FlattenLinkReferences(linkReferences))
    IN  \A p \in OrdersOf(Len(splices)) :
          Prefix0x(ReduceLinkReferences(bytecode, [i \in DOMAIN splices |-> splices[p[i]]]))
            = resolved

-----------------------------------------------------------------------------
(***************************************************************************)
(* PathNormalizer: getPortableSourcePath                                   *)
(***************************************************************************)

\* sourcePath.replace(/\\/g, "/"): every backslash becomes a forward slash.
ReplaceBackslashes(path) ==
  [i \in DOMAIN path |-> IF path[i] = "\\" THEN "/" ELSE path[i]]

\* replacement.replace(":", ""): a string pattern replaces the first match only.
RECURSIVE RemoveFirstColon(_)
RemoveFirstColon(path) ==
  IF path = <<>> THEN <<>>
  ELSE IF Head(path) = ":" THEN Tail(path)
  ELSE <<Head(path)>> \o RemoveFirstColon(Tail(path))

\* if (replacement.length >= 2 && replacement[1] === ":") (0-based index 1)
getPortableSourcePath(path) ==
  LET replacement == ReplaceBackslashes(path)
  IN  IF Len(replacement) >= 2 /\ replacement[2] = ":"
      THEN RemoveFirstColon(<<"/">> \o replacement)
      ELSE replacement

(* ---- the inputs of SpecPath ---- *)

\* Longest path tried, in characters.
MaxPathLen == 4

PathChars == {"\\", "/", ":", "C", "a"}
Paths == UNION {[1..n -> PathChars] : n \in 0..MaxPathLen}

InitPath ==
  /\ gpPc = "input"
  /\ sourcePath \in Paths
  /\ portableOnce = None
  /\ portableTwice = None
  /\ LinkIdle /\ RunIdle /\ ABIIdle /\ ShimIdle

NormalizeOnce ==
  /\ gpPc = "input"
  /\ portableOnce' = getPortableSourcePath(sourcePath)
  /\ gpPc' = "once"
  /\ UNCHANGED <<sourcePath, portableTwice>>
  /\ UNCHANGED <<linkVars, runVars, abiVars, shimVars>>

NormalizeTwice ==
  /\ gpPc = "once"
  /\ portableTwice' = getPortableSourcePath(portableOnce)
  /\ gpPc' = "twice"
  /\ UNCHANGED <<sourcePath, portableOnce>>
  /\ UNCHANGED <<linkVars, runVars, abiVars, shimVars>>

NextPath == NormalizeOnce \/ NormalizeTwice

SpecPath == InitPath /\ [][NextPath]_vars

ContainsBackslash(path) == \E i \in DOMAIN path : path[i] = "\\"

\* C3: getPortableSourcePath is idempotent: for every path p containing
\* backslashes, normalizing the normalized path returns it unchanged.
C3_Idempotent ==
  (gpPc = "twice" /\ ContainsBackslash(sourcePath)) => portableTwice = portableOnce

-----------------------------------------------------------------------------
(***************************************************************************)
(* ABICanonicalizer: orderABI                                              *)
(***************************************************************************)

\* Array.prototype.filter is SelectSeq of the Sequences module.

\* Properties every plain object inherits from Object.prototype: a lookup
\* obj[key] of one of them on an object built by Object.assign({}, ...)
\* yields the inherited function, not undefined.
ObjectPrototypeKeys == {"constructor", "hasOwnProperty", "isPrototypeOf",
                        "propertyIsEnumerable", "toLocaleString", "toString",
                        "valueOf"}

\* What a lookup functionIndexes[name] can yield.
NumberValue(n)    == [kind |-> "number", value |-> n]
InheritedFunction == [kind |-> "function", value |-> 0]
UndefinedValue    == [kind |-> "undefined", value |-> 0]

\* ast.nodes.filter(({nodeType, name}) =>
\*   nodeType === "ContractDefinition" && name === contractName)[0]
IsContractNamed(node, name) ==
  node.nodeType = "ContractDefinition" /\ node.name = name

\* The matching nodes; [0] of an empty list is undefined.
ContractDefinitionsOf(tree, name) ==
  LET Test(node) == IsContractNamed(node, name)
  IN  SelectSeq(tree.nodes, Test)

IsNodeType(node, nodeType) == node.nodeType = nodeType

\* contractDefinition.nodes.filter(FunctionDefinition).map(name)
OrderedFunctionNames(contractDefinition) ==
  LET Test(node) == IsNodeType(node, "FunctionDefinition")
      fns == SelectSeq(contractDefinition.nodes, Test)
  IN  [i \in DOMAIN fns |-> fns[i].name]

\* functionIndexes[name] for the object built by
\*   orderedFunctionNames.map((n, index) => ({[n]: index}))
\*     .reduce((a, b) => Object.assign({}, a, b), {})
\* : the index of the last function of that name (0-based), else what
\* Object.prototype holds under that key, else undefined.
FunctionIndex(orderedFunctionNames, name) ==
  LET own == {i \in DOMAIN orderedFunctionNames : orderedFunctionNames[i] = name}
  IN  IF own # {} THEN NumberValue((CHOOSE i \in own : \A j \in own : j <= i) - 1)
      ELSE IF name \in ObjectPrototypeKeys THEN InheritedFunction
      ELSE UndefinedValue

HasNoIndex(entry, names) == FunctionIndex(names, entry.name) = UndefinedValue
HasIndex(entry, names)   == FunctionIndex(names, entry.name) # UndefinedValue

\* The comparator functionIndexes[a] - functionIndexes[b]; the difference
\* is NaN when an operand is a function, and sort takes NaN for +0.
CompareByIndex(a, b, names) ==
  LET ia == FunctionIndex(names, a.name)
      ib == FunctionIndex(names, b.name)
  IN  IF ia.kind = "number" /\ ib.kind = "number" THEN ia.value - ib.value ELSE 0

\* Array.prototype.sort is stable (ECMAScript 2019): an insertion sort that
\* moves an element left only past elements that compare greater.
RECURSIVE InsertByIndex(_, _, _)
InsertByIndex(sorted, entry, names) ==
  IF sorted = <<>> THEN <<entry>>
  ELSE IF CompareByIndex(sorted[Len(sorted)], entry, names) > 0
       THEN Append(InsertByIndex(SubSeq(sorted, 1, Len(sorted) - 1), entry, names),
                   sorted[Len(sorted)])
       ELSE Append(sorted, entry)

RECURSIVE SortByIndex(_, _)
SortByIndex(entries, names) ==
  IF entries = <<>> THEN <<>>
  ELSE InsertByIndex(SortByIndex(SubSeq(entries, 1, Len(entries) - 1), names),
                     entries[Len(entries)], names)

orderABI(entries, name, tree) ==
  LET found == ContractDefinitionsOf(tree, name)
  IN  IF found = <<>> \/ ~found[1].hasNodes
      THEN entries
      ELSE LET names == OrderedFunctionNames(found[1])
               Absent(entry)  == HasNoIndex(entry, names)
               Present(entry) == HasIndex(entry, names)
           IN  SelectSeq(entries, Absent)
               \o SortByIndex(SelectSeq(entries, Present), names)

(* ---- the inputs of SpecABI ---- *)

\* Most entries in an ABI tried.
MaxABI == 3

\* Most FunctionDefinition nodes in the contract tried.
MaxFunctions == 2

\* ABI entries as solc emits them: two overloads of f, g, an event, the
\* getter of a public state variable named valueOf (a VariableDeclaration in
\* the AST, not a FunctionDefinition), and the constructor (no name).
ABIEntries ==
  { [type |-> "function", name |-> "f", inputs |-> 0],
    [type |-> "function", name |-> "f", inputs |-> 1],
    [type |-> "function", name |-> "g", inputs |-> 0],
    [type |-> "event", name |-> "Transfer", inputs |-> 2],
    [type |-> "function", name |-> "valueOf", inputs |-> 0],
    [type |-> "constructor", name |-> None, inputs |-> 0] }

ABIs == {a \in UNION {[1..n -> ABIEntries] : n \in 0..MaxABI} :
           \A i, j \in DOMAIN a : a[i] = a[j] => i = j}

FunctionNameLists == UNION {[1..n -> {"f", "g"}] : n \in 0..MaxFunctions}

FunctionNode(name) == [nodeType |-> "FunctionDefinition", name |-> name]
StateVariableNode == [nodeType |-> "VariableDeclaration", name |-> "valueOf"]

\* hasNodes tells whether the node has a nodes property at all.
ContractNode(name, hasNodes, children) ==
  [nodeType |-> "ContractDefinition", name |-> name,
   hasNodes |-> hasNodes, nodes |-> children]

PragmaNode ==
  [nodeType |-> "PragmaDirective", name |-> None, hasNodes |-> FALSE, nodes |-> <<>>]

\* ASTs for a source that declares contract "Foo": with its functions in
\* every order tried, without child nodes, or declaring another contract only.
ASTs ==
  { [nodes |-> <<PragmaNode,
                 ContractNode("Foo", TRUE, <<StateVariableNode>> \o
                                      [i \in DOMAIN names |-> FunctionNode(names[i])])>>]
      : names \in FunctionNameLists }
  \cup { [nodes |-> <<PragmaNode, ContractNode("Foo", FALSE, <<>>)>>],
         [nodes |-> <<PragmaNode, ContractNode("Bar", TRUE, <<FunctionNode("f")>>)>>] }

InitABI ==
  /\ oaPc = "input"
  /\ abi \in ABIs
  /\ contractName = "Foo"
  /\ ast \in ASTs
  /\ orderedOnce = None
  /\ orderedTwice = None
  /\ LinkIdle /\ PathIdle /\ RunIdle /\ ShimIdle

OrderOnce ==
  /\ oaPc = "input"
  /\ orderedOnce' = orderABI(abi, contractName, ast)
  /\ oaPc' = "once"
  /\ UNCHANGED <<abi, contractName, ast, orderedTwice>>
  /\ UNCHANGED <<linkVars, pathVars, runVars, shimVars>>

OrderTwice ==
  /\ oaPc = "once"
  /\ orderedTwice' = orderABI(orderedOnce, contractName, ast)
  /\ oaPc' = "twice"
  /\ UNCHANGED <<abi, contractName, ast, orderedOnce>>
  /\ UNCHANGED <<linkVars, pathVars, runVars, shimVars>>

NextABI == OrderOnce \/ OrderTwice

SpecABI == InitABI /\ [][NextABI]_vars

\* The names of the FunctionDefinition children of the matching
\* ContractDefinition (none when there is no such contract or no children).
DeclaredFunctionNames ==
  LET found == ContractDefinitionsOf(ast, contractName)
  IN  IF found = <<>> \/ ~found[1].hasNodes THEN {}
      ELSE {found[1].nodes[i].name :
              i \in {j \in DOMAIN found[1].nodes :
                       found[1].nodes[j].nodeType = "FunctionDefinition"}}

IsUndeclared(entry) == entry.name \notin DeclaredFunctionNames

\* C7: orderABI is stable and idempotent: applying it to its own output
\* returns that output, and the ABI entries whose name is not the name of a
\* FunctionDefinition child of the matching ContractDefinition keep the
\* relative order they had in the input.
C7_StableIdempotent ==
  /\ oaPc = "twice" => orderedTwice = orderedOnce
  /\ oaPc \in {"once", "twice"} =>
       SelectSeq(orderedOnce, IsUndeclared) = SelectSeq(abi, IsUndeclared)

-----------------------------------------------------------------------------
(***************************************************************************)
(* JavaScript objects: a sequence of [key, value] entries in insertion     *)
(* order, as Object.entries lists them.                                    *)
(***************************************************************************)

ObjectHas(obj, key) == \E i \in DOMAIN obj : obj[i].key = key

\* obj[key] for a key the object has.
ObjectGet(obj, key) == obj[CHOOSE i \in DOMAIN obj : obj[i].key = key].value

\* obj[key] = value: an existing key keeps its place and takes the value.
ObjectSet(obj, key, value) ==
  IF ObjectHas(obj, key)
  THEN [i \in DOMAIN obj |-> IF obj[i].key = key THEN [key |-> key, value |-> value]
                                                  ELSE obj[i]]
  ELSE Append(obj, [key |-> key, value |-> value])

\* Object.assign({}, a, b)
RECURSIVE ObjectAssign(_, _)
ObjectAssign(a, b) ==
  IF b = <<>> THEN a
  ELSE ObjectAssign(ObjectSet(a, Head(b).key, Head(b).value), Tail(b))

SeqContains(seq, x) == \E i \in DOMAIN seq : seq[i] = x

-----------------------------------------------------------------------------
(***************************************************************************)
(* PathNormalizer: collectSources                                          *)
(***************************************************************************)

\* The two maps of collectSources (run.js:83-99) for one entry of
\* originalSources.
MappedResult(entry, originalTargets) ==
  LET portable == getPortableSourcePath(entry.path)
  IN  [sources |-> <<[key |-> portable, value |-> entry.contents]>>,
       targets |-> IF entry.path \in originalTargets THEN <<portable>> ELSE <<>>,
       originalSourcePaths |-> <<[key |-> portable, value |-> entry.path]>>]

\* A variant in which the first original path of a normalized path is kept.
MergeOriginalSourcePaths_FirstWins(accumulated, result) == ObjectAssign(result, accumulated)

\* Object.assign({}, accumulator.originalSourcePaths, result.originalSourcePaths)
MergeOriginalSourcePaths(accumulated, result) == ObjectAssign(accumulated, result)

\* The reducer of collectSources (run.js:108-116).
CollectReducer(accumulator, result) ==
  [sources |-> ObjectAssign(accumulator.sources, result.sources),
   targets |-> accumulator.targets \o result.targets,
   originalSourcePaths |->
     MergeOriginalSourcePaths(accumulator.originalSourcePaths, result.originalSourcePaths)]

RECURSIVE CollectReduce(_, _, _)
CollectReduce(accumulator, entries, originalTargets) ==
  IF entries = <<>> THEN accumulator
  ELSE CollectReduce(CollectReducer(accumulator, MappedResult(Head(entries), originalTargets)),
                     Tail(entries), originalTargets)

collectSources(originalSources, originalTargets) ==
  CollectReduce([sources |-> <<>>, targets |-> <<>>, originalSourcePaths |-> <<>>],
                originalSources, originalTargets)

-----------------------------------------------------------------------------
(***************************************************************************)
(* CompilerInputBuilder: prepareCompilerInput, prepareOutputSelection      *)
(***************************************************************************)

\* The selection key that stands for every file (and, inside a file's
\* selection, for every contract).
Star == <<"*">>
AllContracts == "*"
FileLevel == ""

defaultSelectors ==
  << [key |-> FileLevel, value |-> <<"legacyAST", "ast">>],
     [key |-> AllContracts,
      value |-> <<"abi", "metadata", "evm.bytecode.object", "evm.bytecode.sourceMap",
                  "evm.deployedBytecode.object", "evm.deployedBytecode.sourceMap",
                  "userdoc", "devdoc">>] >>

\* Object.entries(sources).map(([p, content]) => ({[p]: {content}})).reduce(assign, {})
prepareSources(sources) ==
  [i \in DOMAIN sources |-> [key |-> sources[i].key,
                              value |-> [content |-> sources[i].value]]]

RECURSIVE SelectEach(_, _)
SelectEach(selection, targets) ==
  IF targets = <<>> THEN selection
  ELSE SelectEach(ObjectSet(selection, Head(targets), defaultSelectors), Tail(targets))

\* A variant that requests everything for every file, targets or not.
prepareOutputSelection_AlwaysStar(targets) ==
  <<[key |-> Star, value |-> defaultSelectors]>>

prepareOutputSelection(targets) ==
  IF Len(targets) = 0
  THEN <<[key |-> Star, value |-> defaultSelectors]>>
  ELSE SelectEach(<<>>, targets)

prepareCompilerInput(sources, targets, settings) ==
  [language |-> "Solidity",
   sources  |-> prepareSources(sources),
   settings |-> [evmVersion |-> settings.evmVersion,
                 optimizer |-> settings.optimizer,
                 outputSelection |-> prepareOutputSelection(targets)]]

\* Whether a request's outputSelection selects `output` for `file` under the
\* contract key `level`: solc reads the file's own entry and the "*" entry.
Selects(outputSelection, file, level, output) ==
  \E i \in DOMAIN outputSelection :
    /\ outputSelection[i].key \in {file, Star}
    /\ ObjectHas(outputSelection[i].value, level)
    /\ SeqContains(ObjectGet(outputSelection[i].value, level), output)

-----------------------------------------------------------------------------
(***************************************************************************)
(* CompilerInvoker: the loaded solc, as invokeCompiler uses it             *)
(***************************************************************************)

SolcVersion == "0.5.0+commit.1d4f565a"

\* Source texts the runs are given, and the contract each declares.
SourceTexts   == <<"contract Foo {}", "contract Bar {}", "contract Baz {}", "contract Qux {}">>
ContractNames == <<"Foo", "Bar", "Baz", "Qux">>
ContractNameOf(contents) ==
  ContractNames[CHOOSE i \in DOMAIN SourceTexts : SourceTexts[i] = contents]

\* What solc reports for a contract: functions f and g declared in that
\* order, listed in the ABI as g, f.
CompiledAST(name) ==
  [nodes |-> <<PragmaNode,
               ContractNode(name, TRUE, <<FunctionNode("f"), FunctionNode("g")>>)>>]
UnselectedAST == [unselected |-> TRUE]
CompiledABI ==
  << [type |-> "function", name |-> "g", inputs |-> 0],
     [type |-> "function", name |-> "f", inputs |-> 0] >>
CompiledCode(name) ==
  [object |-> <<"6", "0", "8", "0">>, sourceMap |-> "0:15:0:-" \o name,
   linkReferences |-> <<>>]
CompiledEVM(name) ==
  << [key |-> "bytecode", value |-> CompiledCode(name)],
     [key |-> "deployedBytecode", value |-> CompiledCode(name)] >>

\* The parsed response of solc.compile for a request: every source of the
\* request has a key in sources and in contracts, and only the sources the
\* outputSelection selects have an AST and EVM output (run.js:296-297).
CompilerResponse(request, diagnostics) ==
  LET selection == request.settings.outputSelection
      file(i)   == request.sources[i].key
      name(i)   == ContractNameOf(request.sources[i].value.content)
      tree(i)   == IF Selects(selection, file(i), FileLevel, "ast")
                   THEN CompiledAST(name(i)) ELSE UnselectedAST
  IN  [errors  |-> diagnostics,
       sources |-> [i \in DOMAIN request.sources |->
                      [key |-> file(i),
                       value |-> [id |-> i - 1, ast |-> tree(i), legacyAST |-> tree(i)]]],
       contracts |-> [i \in DOMAIN request.sources |->
                      [key |-> file(i),
                       value |-> <<[key |-> name(i),
                                    value |-> [abi |-> CompiledABI,
                                               metadata |-> "{}",
                                               devdoc |-> "{}",
                                               userdoc |-> "{}",
                                               evm |-> IF Selects(selection, file(i), AllContracts,
                                                                  "evm.bytecode.object")
                                                       THEN CompiledEVM(name(i))
                                                       ELSE <<>>]]>>]]]

-----------------------------------------------------------------------------
(***************************************************************************)
(* ErrorClassifier: detectErrors                                           *)
(***************************************************************************)

\* formattedMessage texts.  The version-mismatch marker and the pragma
\* hold no comma, so the joined text includes them exactly when one of the
\* joined messages does.
EmptyMessage        == ""
WarningMessage      == "a.sol:3:5: Warning: Unused local variable."
ErrorMessage        == "a.sol:1:1: ParserError: Expected pragma, import directive or contract."
MismatchMessage     == "a.sol:1:1: SyntaxError: Source file requires different compiler version - pragma solidity ^0.4.0;"
BareMismatchMessage == "Error: Source file requires different compiler version"

IncludesMismatch(message) == message \in {MismatchMessage, BareMismatchMessage}
IncludesPragma(message)   == message = MismatchMessage
PragmaMatch == "pragma solidity ^0.4.0"
EOL == "\n"

IsWarning(diagnostic)  == diagnostic.severity = "warning"
NotWarning(diagnostic) == diagnostic.severity # "warning"

\* Array.prototype.join(): the elements separated by ",".
RECURSIVE Join(_)
Join(parts) ==
  IF parts = <<>> THEN ""
  ELSE IF Len(parts) = 1 THEN parts[1]
  ELSE parts[1] \o "," \o Join(Tail(parts))

FormattedMessages(diagnostics) ==
  [i \in DOMAIN diagnostics |-> diagnostics[i].formattedMessage]

VersionHint(configSolcVer, contractSolcVer) ==
  EOL \o "Error: Truffle is currently using solc " \o configSolcVer \o ", "
  \o "but one or more of your contracts specify \"" \o contractSolcVer \o "\"."
  \o EOL \o "Please update your truffle config or pragma statement(s)."
  \o EOL \o "(See https://truffleframework.com/docs/truffle/reference/configuration#compiler-configuration "
  \o "for information on" \o EOL \o "configuring Truffle to use a specific solc compiler version.)"

\* detectErrors (run.js:214-252).  threw names the exception it ends with:
\*  - errors.match(/pragma solidity[^;]*/gm) is null when nothing matches,
\*    and null[0] is a TypeError;
\*  - options.compilers.solc.version || semver.valid(solc.version()) reads
\*    solc, which no scope of detectErrors binds: a ReferenceError when the
\*    configured version is not set.
detectErrors(outputErrors, opts) ==
  LET rawErrors   == IF opts.strict THEN outputErrors
                     ELSE SelectSeq(outputErrors, NotWarning)
      rawWarnings == IF opts.strict THEN <<>>
                     ELSE SelectSeq(outputErrors, IsWarning)
      errors      == Join(FormattedMessages(rawErrors))
      warnings    == Join(FormattedMessages(rawWarnings))
      mismatch    == \E i \in DOMAIN rawErrors : IncludesMismatch(rawErrors[i].formattedMessage)
      pragma      == \E i \in DOMAIN rawErrors : IncludesPragma(rawErrors[i].formattedMessage)
  IN  IF ~mismatch THEN [threw |-> None, warnings |-> warnings, errors |-> errors]
      ELSE IF ~pragma THEN [threw |-> "TypeError", warnings |-> warnings, errors |-> errors]
      ELSE IF opts.version = None
           THEN [threw |-> "ReferenceError", warnings |-> warnings, errors |-> errors]
      ELSE [threw |-> None, warnings |-> warnings,
            errors |-> errors \o VersionHint(opts.version, PragmaMatch)]

\* A variant that tests the warnings text in place of the errors text.
HasBlockingErrors_ReadsWarnings(detection) == Len(detection.warnings) > 0

\* if (errors.length > 0) (run.js:46)
HasBlockingErrors(detection) == Len(detection.errors) > 0

\* if (warnings.length > 0 && !options.quiet) (run.js:39)
LogsWarnings(detection, opts) == Len(detection.warnings) > 0 /\ ~opts.quiet

-----------------------------------------------------------------------------
(***************************************************************************)
(* ArtifactAssembler: processSources, processContracts                     *)
(***************************************************************************)

\* files[id] = originalSourcePaths[sourcePath]: solc numbers the sources
\* 0, 1, ... so the array has no holes.
processSources(output, originalSourcePaths) ==
  [n \in 1..Len(output.sources) |->
     LET i == CHOOSE j \in DOMAIN output.sources : output.sources[j].value.id = n - 1
     IN  ObjectGet(originalSourcePaths, output.sources[i].key)]

\* The { source, contractName, contract } triples of one file (run.js:281-291).
SourceContracts(output, sources, file, sourceContracts) ==
  [i \in DOMAIN sourceContracts |->
     [contractName |-> sourceContracts[i].key,
      contract |-> sourceContracts[i].value,
      source |-> [ast |-> ObjectGet(output.sources, file).ast,
                  legacyAST |-> ObjectGet(output.sources, file).legacyAST,
                  contents |-> ObjectGet(sources, file),
                  sourcePath |-> file]]]

RECURSIVE FlattenContracts(_, _, _)
FlattenContracts(output, sources, contracts) ==
  IF contracts = <<>> THEN <<>>
  ELSE SourceContracts(output, sources, Head(contracts).key, Head(contracts).value)
       \o FlattenContracts(output, sources, Tail(contracts))

\* .filter(({contract: {evm}}) => Object.keys(evm).length > 0)
HasEVMOutput(triple) == Len(triple.contract.evm) > 0

\* The artifact of one triple (run.js:301-349).
Artifact(triple, originalSourcePaths, solcVersion) ==
  LET evm      == triple.contract.evm
      creation == ObjectGet(evm, "bytecode")
      deployed == ObjectGet(evm, "deployedBytecode")
  IN  [contractName |-> triple.contractName,
       abi |-> orderABI(triple.contract.abi, triple.contractName, triple.source.ast),
       metadata |-> triple.contract.metadata,
       devdoc |-> triple.contract.devdoc,
       userdoc |-> triple.contract.userdoc,
       sourcePath |-> ObjectGet(originalSourcePaths, triple.source.sourcePath),
       source |-> triple.source.contents,
       sourceMap |-> creation.sourceMap,
       deployedSourceMap |-> deployed.sourceMap,
       ast |-> triple.source.ast,
       legacyAST |-> triple.source.legacyAST,
       bytecode |-> replaceAllLinkReferences(creation.object, creation.linkReferences),
       deployedBytecode |-> replaceAllLinkReferences(deployed.object, deployed.linkReferences),
       compiler |-> [name |-> "solc", version |-> solcVersion]]

processContracts(output, sources, originalSourcePaths, solcVersion) ==
  LET kept == SelectSeq(FlattenContracts(output, sources, output.contracts), HasEVMOutput)
  IN  [i \in DOMAIN kept |-> Artifact(kept[i], originalSourcePaths, solcVersion)]

-----------------------------------------------------------------------------
(***************************************************************************)
(* run: one compile run, stage by stage                                    *)
(***************************************************************************)

(* ---- the inputs of SpecRun ---- *)

\* Most source files given to a run.
MaxSources == 2

\* Most diagnostics in a compiler response.
MaxDiagnostics == 2

\* Original paths: a Windows path, the same file spelled with forward
\* slashes (both normalize to /C/a), and a relative POSIX path.
SourcePaths == { <<"C", ":", "\\", "a">>, <<"C", ":", "/", "a">>, <<"b">> }

\* rawSources objects: distinct paths, the i-th entry holding the i-th text.
PathLists ==
  {q \in UNION {[1..n -> SourcePaths] : n \in 0..MaxSources} :
     \A i, j \in DOMAIN q : q[i] = q[j] => i = j}
RawSourceObjects ==
  { [i \in DOMAIN paths |-> [path |-> paths[i], contents |-> SourceTexts[i]]] :
      paths \in PathLists }

RawPaths(raw) == {raw[i].path : i \in DOMAIN raw}

Settings == [evmVersion |-> "byzantium", optimizer |-> "enabled:false"]

\* options: compilationTargets among the paths given, strict, quiet, and
\* compilers.solc.version set or not.
OptionsFor(raw) ==
  [compilationTargets : SUBSET RawPaths(raw),
   strict : BOOLEAN,
   quiet : BOOLEAN,
   version : {None, "0.5.0"}]

Diagnostics ==
  { [severity |-> "warning", formattedMessage |-> EmptyMessage],
    [severity |-> "warning", formattedMessage |-> WarningMessage],
    [severity |-> "warning", formattedMessage |-> MismatchMessage],
    [severity |-> "warning", formattedMessage |-> BareMismatchMessage],
    [severity |-> "error", formattedMessage |-> ErrorMessage],
    [severity |-> "error", formattedMessage |-> MismatchMessage] }

DiagnosticLists == UNION {[1..n -> Diagnostics] : n \in 0..MaxDiagnostics}

\* The stages of a run, in the order run calls them.
StageOrder == <<"Normalizing", "BuildingRequest", "Invoking", "Classifying", "Assembling">>

InitRun ==
  /\ pc = "Idle"
  /\ stages = <<>>
  /\ rawSources \in RawSourceObjects
  /\ options \in OptionsFor(rawSources)
  /\ collected = None
  /\ compilerInput = None
  /\ compiles = 0
  /\ compilerOutput = None
  /\ detected = None
  /\ logged = <<>>
  /\ returned = None
  /\ thrown = None
  /\ LinkIdle /\ PathIdle /\ ABIIdle /\ ShimIdle

(* ---- the actions of SpecRun ---- *)

\* run.js:8-14: no sources, an empty successful result and no stage at all.
ReturnEmpty ==
  /\ pc = "Idle"
  /\ Len(rawSources) = 0
  /\ returned' = [contracts |-> <<>>, sourceIndexes |-> <<>>, compilerInfo |-> None]
  /\ pc' = "Success"
  /\ UNCHANGED <<stages, rawSources, options, collected, compilerInput, compiles,
                 compilerOutput, detected, logged, thrown>>
  /\ UNCHANGED <<linkVars, pathVars, abiVars, shimVars>>

\* run.js:18-21
CollectSources ==
  /\ pc = "Idle"
  /\ Len(rawSources) # 0
  /\ stages' = Append(stages, "Normalizing")
  /\ collected' = collectSources(rawSources, options.compilationTargets)
  /\ pc' = "BuildingRequest"
  /\ UNCHANGED <<rawSources, options, compilerInput, compiles, compilerOutput,
                 detected, logged, returned, thrown>>
  /\ UNCHANGED <<linkVars, pathVars, abiVars, shimVars>>

\* run.js:24-28
PrepareCompilerInput ==
  /\ pc = "BuildingRequest"
  /\ stages' = Append(stages, "BuildingRequest")
  /\ compilerInput' = prepareCompilerInput(collected.sources, collected.targets, Settings)
  /\ pc' = "Invoking"
  /\ UNCHANGED <<rawSources, options, collected, compiles, compilerOutput,
                 detected, logged, returned, thrown>>
  /\ UNCHANGED <<linkVars, pathVars, abiVars, shimVars>>

\* run.js:31-34, invokeCompiler (run.js:193-208): supplier.load() may reject,
\* solc.compile is called once, and JSON.parse may throw on its output.
InvokeCompiler ==
  /\ pc = "Invoking"
  /\ stages' = Append(stages, "Invoking")
  /\ \/ /\ thrown' = "LoadError"
        /\ pc' = "Aborted"
        /\ UNCHANGED <<compiles, compilerOutput>>
     \/ /\ compiles' = compiles + 1
        /\ thrown' = "SyntaxError"
        /\ pc' = "Aborted"
        /\ UNCHANGED compilerOutput
     \/ \E diagnostics \in DiagnosticLists :
          /\ compiles' = compiles + 1
          /\ compilerOutput' = CompilerResponse(compilerInput, diagnostics)
          /\ pc' = "Classifying"
          /\ UNCHANGED thrown
  /\ UNCHANGED <<rawSources, options, collected, compilerInput, detected, logged, returned>>
  /\ UNCHANGED <<linkVars, pathVars, abiVars, shimVars>>

WarningsHeader == EOL \o "    > compilation warnings encountered:" \o EOL

\* run.js:38-52: detectErrors, the warnings log, and the throw of CompileError.
DetectErrors ==
  /\ pc = "Classifying"
  /\ stages' = Append(stages, "Classifying")
  /\ LET detection == detectErrors(compilerOutput.errors, options)
     IN  IF detection.threw # None
         THEN /\ thrown' = detection.threw
              /\ pc' = "Aborted"
              /\ UNCHANGED <<detected, logged>>
         ELSE /\ detected' = [warnings |-> detection.warnings, errors |-> detection.errors]
              /\ logged' = logged
                   \o (IF LogsWarnings(detection, options)
                       THEN <<WarningsHeader, detection.warnings>> ELSE <<>>)
                   \o (IF HasBlockingErrors(detection) /\ ~options.quiet
                       THEN <<"">> ELSE <<>>)
              /\ IF HasBlockingErrors(detection)
                 THEN thrown' = "CompileError" /\ pc' = "Failure"
                 ELSE thrown' = thrown /\ pc' = "Assembling"
  /\ UNCHANGED <<rawSources, options, collected, compilerInput, compiles,
                 compilerOutput, returned>>
  /\ UNCHANGED <<linkVars, pathVars, abiVars, shimVars>>

\* run.js:55-70
Assemble ==
  /\ pc = "Assembling"
  /\ stages' = Append(stages, "Assembling")
  /\ returned' =
       [sourceIndexes |-> processSources(compilerOutput, collected.originalSourcePaths),
        contracts |-> processContracts(compilerOutput, collected.sources,
                                       collected.originalSourcePaths, SolcVersion),
        compilerInfo |-> [name |-> "solc", version |-> SolcVersion]]
  /\ pc' = "Success"
  /\ UNCHANGED <<rawSources, options, collected, compilerInput, compiles,
                 compilerOutput, detected, logged, thrown>>
  /\ UNCHANGED <<linkVars, pathVars, abiVars, shimVars>>

NextRun ==
  \/ ReturnEmpty
  \/ CollectSources
  \/ PrepareCompilerInput
  \/ InvokeCompiler
  \/ DetectErrors
  \/ Assemble

SpecRun == InitRun /\ [][NextRun]_vars

(* ---- claims on run ---- *)

Entered(stage) == SeqContains(stages, stage)
RunEnded == pc \in {"Success", "Failure", "Aborted"}

OnlyWarnings(diagnostics) ==
  \A i \in DOMAIN diagnostics : diagnostics[i].severity = "warning"

\* C4: for a compiler diagnostic list containing only diagnostics of
\* severity "warning" (stated here for the lists that hold at least one),
\* a run with options.strict ends in the blocking failure, throwing the
\* aggregated CompileError, and a run without it succeeds with the warnings
\* in the warnings bucket and an empty errors bucket.
C4_StrictTurnsWarningsIntoFailure ==
  (/\ RunEnded
   /\ Entered("Classifying")
   /\ Len(compilerOutput.errors) > 0
   /\ OnlyWarnings(compilerOutput.errors))
  => IF options.strict
     THEN pc = "Failure" /\ thrown = "CompileError"
     ELSE /\ pc = "Success"
          /\ detected.errors = ""
          /\ detected.warnings = Join(FormattedMessages(compilerOutput.errors))

IsPrefix(s, t) == Len(s) <= Len(t) /\ \A i \in DOMAIN s : s[i] = t[i]

\* C5: a run passes through Normalizing, BuildingRequest, Invoking,
\* Classifying, Assembling in that order, each at most once, and calls the
\* compiler at most once; a successful run of a non-empty source set has
\* passed through all of them; blocking errors end the run in Failure with
\* CompileError before Assembling; an exception ends the run in the stage
\* that raised it (stages records every stage executed, so no stage
\* executes after it).
C5_StagesInOrder ==
  /\ IsPrefix(stages, StageOrder)
  /\ compiles <= 1
  /\ (pc = "Success" /\ Len(rawSources) > 0) => stages = StageOrder
  /\ (pc \in {"Assembling", "Success", "Failure"} /\ Entered("Classifying")) =>
       (Len(detected.errors) > 0 <=> pc = "Failure")
  /\ pc = "Failure" => thrown = "CompileError" /\ stages = SubSeq(StageOrder, 1, 4)
  /\ thrown # None => pc \in {"Failure", "Aborted"}
  /\ thrown \in {"LoadError", "SyntaxError"} => stages = SubSeq(StageOrder, 1, 3)
  /\ thrown \in {"TypeError", "ReferenceError"} => stages = SubSeq(StageOrder, 1, 4)
  /\ (pc = "Aborted" \/ pc = "Failure") => ~Entered("Assembling")

C5_Witness ==
  /\ pc = "Failure"
  /\ thrown = "CompileError"
  /\ compiles = 1
  /\ stages = SubSeq(StageOrder, 1, 4)

ASTOutputs == {"legacyAST", "ast"}
ContractOutputs == {"abi", "metadata", "evm.bytecode.object", "evm.bytecode.sourceMap",
                    "evm.deployedBytecode.object", "evm.deployedBytecode.sourceMap",
                    "userdoc", "devdoc"}

SelectsAll(file, level, outputs) ==
  \A o \in outputs : Selects(compilerInput.settings.outputSelection, file, level, o)
SelectsNone(file, level, outputs) ==
  \A o \in outputs : ~Selects(compilerInput.settings.outputSelection, file, level, o)

\* A file of the request is in scope when it is a target, or when the
\* target list is empty.
InScope(file) == collected.targets = <<>> \/ SeqContains(collected.targets, file)

RequestFiles == {compilerInput.sources[i].key : i \in DOMAIN compilerInput.sources}

\* C6 as stated: the outputSelection of the request selects the AST outputs
\* for every source file of the request, and the bytecode/ABI/metadata/doc
\* outputs only for the files in scope.
C6_ASTForEveryFile ==
  Entered("BuildingRequest") =>
    \A file \in RequestFiles :
      /\ SelectsAll(file, FileLevel, ASTOutputs)
      /\ IF InScope(file) THEN SelectsAll(file, AllContracts, ContractOutputs)
                          ELSE SelectsNone(file, AllContracts, ContractOutputs)

\* C6 amended: the outputSelection selects the AST outputs and the
\* bytecode/ABI/metadata/doc outputs alike for exactly the files in scope; a
\* source file outside a non-empty target list gets no selector, AST included.
C6_SelectionOnlyInScope ==
  Entered("BuildingRequest") =>
    \A file \in RequestFiles :
      IF InScope(file)
      THEN /\ SelectsAll(file, FileLevel, ASTOutputs)
           /\ SelectsAll(file, AllContracts, ContractOutputs)
      ELSE /\ SelectsNone(file, FileLevel, ASTOutputs)
           /\ SelectsNone(file, AllContracts, ContractOutputs)

C6_Witness ==
  /\ Entered("BuildingRequest")
  /\ \E file \in RequestFiles : ~InScope(file)
  /\ \E file \in RequestFiles : InScope(file)

\* C8: every artifact run returns has sourcePath equal to an original path
\* of rawSources that normalizes to the path the compiler reported the
\* contract under, and source equal to the contents given for that original
\* path (which declare the contract); the reverse map of collectSources
\* sends each normalized path to an original path that normalizes to it.
C8_SourcePathIsOriginal ==
  (pc = "Success" /\ Len(rawSources) > 0) =>
    /\ \A k \in DOMAIN returned.contracts :
         LET artifact == returned.contracts[k]
             reported == getPortableSourcePath(artifact.sourcePath)
         IN  /\ \E i \in DOMAIN rawSources :
                  /\ rawSources[i].path = artifact.sourcePath
                  /\ rawSources[i].contents = artifact.source
             /\ ContractNameOf(artifact.source) = artifact.contractName
             /\ ObjectHas(compilerOutput.contracts, reported)
             /\ ObjectHas(ObjectGet(compilerOutput.contracts, reported), artifact.contractName)
    /\ \A j \in DOMAIN collected.originalSourcePaths :
         LET entry == collected.originalSourcePaths[j]
         IN  /\ entry.value \in RawPaths(rawSources)
             /\ getPortableSourcePath(entry.value) = entry.key
    /\ \A n \in DOMAIN returned.sourceIndexes :
         returned.sourceIndexes[n] \in RawPaths(rawSources)

\* Two original paths that normalize to the same path were given, and the
\* artifact of their file came back under an original path that
\* normalization changes.
C8_Witness ==
  /\ pc = "Success"
  /\ Len(rawSources) = 2
  /\ getPortableSourcePath(rawSources[1].path) = getPortableSourcePath(rawSources[2].path)
  /\ \E k \in DOMAIN returned.contracts :
       getPortableSourcePath(returned.contracts[k].sourcePath) # returned.contracts[k].sourcePath

-----------------------------------------------------------------------------
(***************************************************************************)
(* LegacyShim: shimOutput, shimContract, shimBytecode                      *)
(***************************************************************************)

\* The two shim files of the repository: in legacy/shims.js shimBytecode
\* takes a { bytes, linkReferences } object, in the other it returns its
\* argument.
ShimModules == {"legacy/shims.js", "unnamed/part_000"}

\* The receiver a callback gets from Array.prototype.map when no thisArg is
\* given: undefined, which a sloppy-mode function sees as the global object.
\* Neither has a shimBytecode property.
MapCallbackReceiver == {}

\* shimBytecode applied to a string, as run's artifacts hold.  In
\* legacy/shims.js the destructuring ({ bytes, linkReferences }) of a string
\* leaves both undefined, linkReferences becomes [], the reduce returns
\* bytes, and the template gives "0x" + "undefined".
shimBytecode(module, code) ==
  IF module = "legacy/shims.js" THEN "0x" \o None ELSE code

TypeErrorValue == [threw |-> "TypeError"]

\* shimContract called with `receiver` as this: this.shimBytecode(...) is a
\* TypeError when the receiver has no shimBytecode.
shimContract(receiver, module, contract) ==
  IF "shimBytecode" \notin receiver
  THEN TypeErrorValue
  ELSE [threw |-> None,
        contract_name |-> contract.contractName,
        sourcePath |-> contract.sourcePath,
        source |-> contract.source,
        bytecode |-> shimBytecode(module, contract.bytecode),
        deployedBytecode |-> shimBytecode(module, contract.deployedBytecode),
        unlinked_binary |-> shimBytecode(module, contract.bytecode)]

\* list.map(this.shimContract): the method is passed unbound.
MapShimContract(module, list) ==
  [i \in DOMAIN list |-> shimContract(MapCallbackReceiver, module, list[i])]

\* .map(contract => ({[contract.contract_name]: contract})).reduce(assign, {})
RECURSIVE MergePairs(_, _)
MergePairs(merged, shimmed) ==
  IF shimmed = <<>> THEN merged
  ELSE MergePairs(ObjectSet(merged, Head(shimmed).contract_name, Head(shimmed)),
                  Tail(shimmed))

\* shimOutput: the legacy map, or the exception the map over the list ends with.
shimOutput(module, list) ==
  LET shimmed == MapShimContract(module, list)
  IN  IF \E i \in DOMAIN shimmed : shimmed[i].threw # None
      THEN [threw |-> "TypeError", contracts |-> <<>>]
      ELSE [threw |-> None, contracts |-> MergePairs(<<>>, shimmed)]

(* ---- the inputs of SpecShim ---- *)

\* Most artifacts in the list given to shimOutput.
MaxArtifacts == 2

\* Artifacts of the shape run produces: bytecode a 0x-prefixed hex string.
ShimArtifacts ==
  [contractName : {"Foo", "Bar", "Baz"},
   sourcePath : {"/C/a.sol"},
   source : {"contract {}"},
   bytecode : {"0xdead", "0x6080"},
   deployedBytecode : {"0xbeef"}]

ShimLists == UNION {[1..n -> ShimArtifacts] : n \in 0..MaxArtifacts}

InitShim ==
  /\ shPc = "call"
  /\ shimModule \in ShimModules
  /\ shimInput \in ShimLists
  /\ shimResult = None
  /\ LinkIdle /\ PathIdle /\ RunIdle /\ ABIIdle

ShimOutput ==
  /\ shPc = "call"
  /\ shimResult' = shimOutput(shimModule, shimInput)
  /\ shPc' = "done"
  /\ UNCHANGED <<shimModule, shimInput>>
  /\ UNCHANGED <<linkVars, pathVars, runVars, abiVars>>

NextShim == ShimOutput

SpecShim == InitShim /\ [][NextShim]_vars

\* C9: for every artifact list whose bytecode fields are 0x-prefixed hex
\* strings, shimOutput returns a map keyed by contract name in which the
\* entry of each artifact (the last of its name) has contract_name equal to
\* the artifact's contractName, and bytecode and unlinked_binary both equal
\* to the artifact's bytecode string verbatim.
C9_ShimCopiesBytecode ==
  shPc = "done" =>
    /\ shimResult.threw = None
    /\ \A i \in DOMAIN shimInput :
         (\A j \in DOMAIN shimInput :
            shimInput[j].contractName = shimInput[i].contractName => j <= i)
         => /\ ObjectHas(shimResult.contracts, shimInput[i].contractName)
            /\ LET legacy == ObjectGet(shimResult.contracts, shimInput[i].contractName)
               IN  /\ legacy.contract_name = shimInput[i].contractName
                   /\ legacy.bytecode = shimInput[i].bytecode
                   /\ legacy.unlinked_binary = shimInput[i].bytecode

====
